---------------------------- MODULE Spec2Model ----------------------------
(***************************************************************************)
(* Model of the cua service (jordangomes/cua): the native event            *)
(* subscription with its debounce gate (windows_api/event_watcher.rs), the *)
(* logon/logoff callback (main.rs), and the collection pass                *)
(* (windows_api/mod.rs) with the device identity correlator                *)
(* (windows_api/device_info.rs) and the session identity resolver          *)
(* (windows_api/user_info.rs).                                             *)
(*                                                                         *)
(* Strings whose content the code inspects (SIDs) are sequences of         *)
(* one-character strings; Option and Result values are records.            *)
(***************************************************************************)
EXTENDS Integers, Sequences, FiniteSets, TLC

\* ------------------------------------------------------------------------
\* Bounds of the model
\* ------------------------------------------------------------------------
\* Largest value of the monotonic clock (Instant::now)
MaxClock == 4
\* Number of notifications the native layer delivers in one run of the
\* pipeline specification
MaxDeliveries == 2
\* Number of notifications delivered in one run of the gate specification
MaxGateDeliveries == 4
\* Longest enumeration of certificate entries / tenant-join entries
MaxCerts == 2
MaxJoins == 2
MaxServiceDeliveries == 2
MaxWindowedDeliveries == 2

\* The native dispatch threads (delivery is not guaranteed single-threaded)
Threads == {"t1", "t2"}
NoThread == "none"

\* ------------------------------------------------------------------------
\* Option and Result
\* ------------------------------------------------------------------------
None == [some |-> FALSE]
Some(x) == [some |-> TRUE, val |-> x]
Ok(x) == [ok |-> TRUE, val |-> x]
Err(e) == [ok |-> FALSE, err |-> e]

\* ------------------------------------------------------------------------
\* Strings
\* ------------------------------------------------------------------------
\* str::starts_with
starts_with(s, p) == Len(s) >= Len(p) /\ SubSeq(s, 1, Len(p)) = p

S_1_5_96 == <<"S","-","1","-","5","-","9","6">>
S_1_5_90 == <<"S","-","1","-","5","-","9","0">>
\* main.rs: const WHITELISTED_SID: [&str; 2] = ["S-1-5-96", "S-1-5-90"]
WHITELISTED_SID == <<S_1_5_96, S_1_5_90>>

\* Sample SIDs: an interactive account, a font-driver host account, a window
\* manager account, a SID shorter than the whitelisted prefixes
SidAlice == <<"S","-","1","-","5","-","2","1","-","7">>
SidUmfd == <<"S","-","1","-","5","-","9","6","-","0","-","1">>
SidDwm == <<"S","-","1","-","5","-","9","0","-","0","-","1">>
SidShort == <<"S","-","1","-","5","-","9">>

NameAlice == <<"a","l","i","c","e">>
NameUmfd == <<"u","m","f","d">>
NameDwm == <<"d","w","m">>
LogonType10 == <<"1","0">>
LogonType2 == <<"2">>

\* ------------------------------------------------------------------------
\* Event (event_watcher.rs)
\* ------------------------------------------------------------------------
Field(n, v) == [name |-> n, value |-> v]

\* Event { system: System { event_id }, event_data: Option<EventData> }
MkEvent(id, data) == [system |-> [event_id |-> id], event_data |-> data]

EvLogonAlice == MkEvent(4624,
    Some(<<Field("TargetUserSid", SidAlice), Field("TargetUserName", NameAlice),
           Field("LogonType", LogonType10)>>))
EvLogonUmfd == MkEvent(4624,
    Some(<<Field("TargetUserSid", SidUmfd), Field("TargetUserName", NameUmfd),
           Field("LogonType", LogonType2)>>))
EvLogoffDwm == MkEvent(4647,
    Some(<<Field("TargetUserSid", SidDwm), Field("TargetUserName", NameDwm)>>))
EvLogoffNoSid == MkEvent(4634, Some(<<Field("TargetUserName", NameAlice)>>))
EvUnknownShort == MkEvent(1,
    Some(<<Field("TargetUserName", NameAlice), Field("TargetUserSid", SidShort)>>))
EvLogoffNoData == MkEvent(4647, None)
EvLogoffAlice == MkEvent(4634, Some(<<Field("TargetUserSid", SidAlice)>>))
EvLogoffInteractiveAlice ==
    MkEvent(4647, Some(<<Field("TargetUserSid", SidAlice)>>))

\* The Data names of an event of the Security channel are unique
Events == {EvLogonAlice, EvLogonUmfd, EvLogoffDwm, EvLogoffNoSid,
           EvUnknownShort, EvLogoffNoData, EvLogoffAlice,
           EvLogoffInteractiveAlice}

\* Mutant: the two logoff ids are taken for each other
get_event_id_type_swapped(system) ==
    CASE system.event_id = 4624 -> "Logon"
      [] system.event_id = 4647 -> "Logoff"
      [] system.event_id = 4634 -> "LogoffInteractive"
      [] OTHER -> "Unknown"

\* System::get_event_id_type followed by Display (to_string)
get_event_id_type(system) ==
    CASE system.event_id = 4624 -> "Logon"
      [] system.event_id = 4634 -> "Logoff"
      [] system.event_id = 4647 -> "LogoffInteractive"
      [] OTHER -> "Unknown"

\* Index of the first field named field_name, 0 when there is none
RECURSIVE find_field(_, _, _)
find_field(data, field_name, i) ==
    IF i > Len(data) THEN 0
    ELSE IF data[i].name = field_name THEN i
    ELSE find_field(data, field_name, i + 1)

\* Mutant: the value of the first field, whatever its name
get_value_first(data, field_name) ==
    IF data = <<>> THEN None ELSE Some(data[1].value)

\* EventData::get_value
get_value(data, field_name) ==
    LET i == find_field(data, field_name, 1)
    IN IF i = 0 THEN None ELSE Some(data[i].value)

\* ------------------------------------------------------------------------
\* Notifications of the native layer and their rendering
\* ------------------------------------------------------------------------
\* A rendered XML document: well formed or not; a well formed document holds
\* the System/EventID element and the optional EventData element.
Xml(ev) == [wellformed |-> TRUE, event_id |-> ev.system.event_id,
            event_data |-> ev.event_data]
XmlMalformed == [wellformed |-> FALSE, event_id |-> 0, event_data |-> None]

\* (action, event handle): the handle renders to an XML document or not
Notification(a, r, x) == [action |-> a, renders |-> r, xml |-> x]

Notifications ==
    {Notification("EvtSubscribeActionError", FALSE, XmlMalformed),
     Notification("EvtSubscribeActionOther", FALSE, XmlMalformed),
     Notification("EvtSubscribeActionDeliver", FALSE, XmlMalformed),
     Notification("EvtSubscribeActionDeliver", TRUE, XmlMalformed)}
    \cup {Notification("EvtSubscribeActionDeliver", TRUE, Xml(ev)) : ev \in Events}

NoNotification == Notification("none", FALSE, XmlMalformed)
NoEvent == MkEvent(0, None)

\* get_event_xml_from_handle: EvtRender fails or yields the XML text
get_event_xml_from_handle(n) ==
    IF n.renders THEN Ok(n.xml) ELSE Err("EvtRender failed")

\* Mutant: a deserializer that yields an Event for any text
from_str_lenient(xml) == Ok(MkEvent(xml.event_id, xml.event_data))

\* quick_xml::de::from_str::<Event>
from_str(xml) ==
    IF xml.wellformed
    THEN Ok(MkEvent(xml.event_id, xml.event_data))
    ELSE Err("Error serializing xml")

\* handle_windows_event, lines 111-126: the Result<Event> of a notification
event_result(n) ==
    LET event_string_result ==
            CASE n.action = "EvtSubscribeActionError" ->
                     Err("Event subscribe action error")
              [] n.action = "EvtSubscribeActionDeliver" ->
                     get_event_xml_from_handle(n)
              [] OTHER -> Err("Unhandled event subscribe action")
    IN IF event_string_result.ok
       THEN from_str(event_string_result.val)
       ELSE event_string_result

\* ------------------------------------------------------------------------
\* Debounce decision (handle_windows_event, lines 141-144)
\* ------------------------------------------------------------------------
\* Instant::duration_since: zero when `earlier` is later than `self`
duration_since(later, earlier) ==
    IF later >= earlier THEN later - earlier ELSE 0

\* Mutant: the elapsed time must exceed the window
should_call_strict(last, t_now, duration) ==
    IF ~last.some THEN TRUE
    ELSE duration_since(t_now, last.val) > duration

should_call(last, t_now, duration) ==
    IF ~last.some THEN TRUE
    ELSE duration_since(t_now, last.val) >= duration

\* ------------------------------------------------------------------------
\* The logon/logoff callback (main.rs, lines 89-105)
\* ------------------------------------------------------------------------
\* Mutant: only the first whitelisted prefix is compared
is_whitelisted_first(sid) == starts_with(sid, WHITELISTED_SID[1])

is_whitelisted(sid) ==
    \E i \in 1..Len(WHITELISTED_SID) : starts_with(sid, WHITELISTED_SID[i])

\* What one call of the closure emits and whether it calls collect_logs
logon_logoff_event_callback(ev) ==
    IF ev.event_data.some
    THEN LET event_data == ev.event_data.val
             sid == get_value(event_data, "TargetUserSid")
             username == get_value(event_data, "TargetUserName")
             logon_type == get_value(event_data, "LogonType")
             event_id_type == get_event_id_type(ev.system)
         IN IF sid.some /\ ~is_whitelisted(sid.val)
            THEN [records |-> <<[action |-> "logon_logoff_event",
                                 level |-> "info",
                                 event_type |-> event_id_type,
                                 user_sid |-> sid.val,
                                 username |-> username,
                                 logon_type |-> logon_type]>>,
                  collect |-> TRUE]
            ELSE [records |-> <<>>, collect |-> FALSE]
    ELSE [records |-> <<[action |-> "logon_logoff_event", level |-> "warn",
                         event_id |-> ev.system.event_id]>>,
          collect |-> FALSE]

\* ------------------------------------------------------------------------
\* Device identity correlator (device_info.rs)
\* ------------------------------------------------------------------------
\* device_info.rs line 34: certificate_start_sequence
certificate_start_sequence == <<32, 0, 0, 0, 1, 0, 0, 0>>

\* slice::windows(8).position(|w| w == certificate_start_sequence), 0-based
RECURSIVE position(_, _)
position(blob, i) ==
    IF i + Len(certificate_start_sequence) > Len(blob) THEN None
    ELSE IF SubSeq(blob, i + 1, i + Len(certificate_start_sequence))
                = certificate_start_sequence
         THEN Some(i)
    ELSE position(blob, i + 1)

\* Lines 35-40: the bytes handed to the X.509 parser.  Slicing
\* certificate_blob_bytes[start..] panics when start exceeds the length.
certificate_bytes(blob) ==
    LET window == position(blob, 0)
    IN IF window.some
       THEN LET start == window.val + Len(certificate_start_sequence) + 4
            IN IF start > Len(blob)
               THEN [panic |-> TRUE, bytes |-> <<>>]
               ELSE [panic |-> FALSE, bytes |-> SubSeq(blob, start + 1, Len(blob))]
       ELSE [panic |-> FALSE, bytes |-> <<>>]

\* The attribute value a one-byte code of the modelled DER encoding stands for
attribute_string(code) ==
    CASE code = 1 -> Some("tenantA")
      [] code = 2 -> Some("tenantB")
      [] code = 3 -> Some("deviceX")
      [] code = 4 -> Some("deviceY")
      [] OTHER -> None

\* X509Certificate::from_der on the modelled encoding: the SEQUENCE tag 48
\* followed by the subject's domain-component and common-name codes
from_der(bytes) ==
    IF Len(bytes) = 3 /\ bytes[1] = 48
    THEN Ok([dc |-> attribute_string(bytes[2]), cn |-> attribute_string(bytes[3])])
    ELSE Err("not a certificate")

EmptyMap == [k \in {} |-> ""]
\* Mutant: an insert that keeps the value a key already has
insert_if_absent(map, k, v) ==
    [x \in (DOMAIN map) \cup {k} |-> IF x \in DOMAIN map THEN map[x] ELSE v]

\* HashMap::insert
insert(map, k, v) == [x \in (DOMAIN map) \cup {k} |-> IF x = k THEN v ELSE map[x]]
\* HashMap::get(..).unwrap_or(default)
get_or(map, k, default) == IF k \in DOMAIN map THEN map[k] ELSE default

\* Lines 27-55: the loop over the certificate entries, from entry i on
RECURSIVE scan_certificates(_, _, _)
scan_certificates(certs, i, certificate_map) ==
    IF i > Len(certs) THEN [kind |-> "ok", map |-> certificate_map]
    ELSE IF ~certs[i].open THEN [kind |-> "err", map |-> certificate_map]
    ELSE IF ~certs[i].blob_ok THEN [kind |-> "err", map |-> certificate_map]
    ELSE LET extracted == certificate_bytes(certs[i].blob)
             parsed == from_der(extracted.bytes)
         IN IF extracted.panic THEN [kind |-> "panic", map |-> certificate_map]
            ELSE IF parsed.ok /\ parsed.val.dc.some /\ parsed.val.cn.some
            THEN scan_certificates(certs, i + 1,
                     insert(certificate_map, parsed.val.dc.val, parsed.val.cn.val))
            ELSE scan_certificates(certs, i + 1, certificate_map)

\* Mutant: a tenant-join entry without a matching certificate is left out
RECURSIVE join_records_skip(_, _, _, _)
join_records_skip(joins, j, certificate_map, results) ==
    IF j > Len(joins) THEN [kind |-> "ok", results |-> results]
    ELSE IF ~joins[j].open THEN [kind |-> "err", results |-> <<>>]
    ELSE IF ~joins[j].tenant_id.some THEN [kind |-> "err", results |-> <<>>]
    ELSE IF ~joins[j].user_email.some THEN [kind |-> "err", results |-> <<>>]
    ELSE join_records_skip(joins, j + 1, certificate_map,
             IF joins[j].tenant_id.val \in DOMAIN certificate_map
             THEN Append(results,
                      [tenant_id |-> joins[j].tenant_id.val,
                       device_id |-> certificate_map[joins[j].tenant_id.val],
                       registered_user |-> joins[j].user_email.val])
             ELSE results)

\* Mutant: a failing tenant-join entry ends the loop with the records so far
RECURSIVE join_records_partial(_, _, _, _)
join_records_partial(joins, j, certificate_map, results) ==
    IF j > Len(joins) THEN [kind |-> "ok", results |-> results]
    ELSE IF ~joins[j].open \/ ~joins[j].tenant_id.some \/ ~joins[j].user_email.some
    THEN [kind |-> "ok", results |-> results]
    ELSE join_records_partial(joins, j + 1, certificate_map,
             Append(results,
                 [tenant_id |-> joins[j].tenant_id.val,
                  device_id |-> get_or(certificate_map, joins[j].tenant_id.val, ""),
                  registered_user |-> joins[j].user_email.val]))

\* Lines 60-73: the loop over the tenant-join entries, from entry j on
RECURSIVE join_records(_, _, _, _)
join_records(joins, j, certificate_map, results) ==
    IF j > Len(joins) THEN [kind |-> "ok", results |-> results]
    ELSE IF ~joins[j].open THEN [kind |-> "err", results |-> <<>>]
    ELSE IF ~joins[j].tenant_id.some THEN [kind |-> "err", results |-> <<>>]
    ELSE IF ~joins[j].user_email.some THEN [kind |-> "err", results |-> <<>>]
    ELSE join_records(joins, j + 1, certificate_map,
             Append(results,
                 [tenant_id |-> joins[j].tenant_id.val,
                  device_id |-> get_or(certificate_map, joins[j].tenant_id.val, ""),
                  registered_user |-> joins[j].user_email.val]))

\* get_entra_join_info: "ok" with the records, "err", or "panic"
get_entra_join_info(reg) ==
    IF ~reg.certs_open \/ ~reg.certs_keys THEN [kind |-> "err", results |-> <<>>]
    ELSE LET scanned == scan_certificates(reg.certs, 1, EmptyMap)
         IN IF scanned.kind # "ok" THEN [kind |-> scanned.kind, results |-> <<>>]
            ELSE IF ~reg.join_open \/ ~reg.join_keys
            THEN [kind |-> "err", results |-> <<>>]
            ELSE join_records(reg.joins, 1, scanned.map, <<>>)

\* --- registry contents the model draws from ---
Marker7 == <<32, 0, 0, 0, 1, 0, 0>>
LengthField == <<3, 0, 0, 0>>
CertDer(dc, cn) == <<7>> \o certificate_start_sequence \o LengthField \o <<48, dc, cn>>

Blobs ==
    {Marker7,                                           \* marker absent
     certificate_start_sequence,                        \* 0 bytes after the marker
     certificate_start_sequence \o <<3, 0, 0>>,         \* 3 bytes after the marker
     certificate_start_sequence \o LengthField,         \* exactly the length field
     CertDer(1, 3), CertDer(1, 4), CertDer(2, 3),
     CertDer(0, 3), CertDer(1, 0)}

CertEntry(o, b, blob) == [open |-> o, blob_ok |-> b, blob |-> blob]
CertEntries ==
    {CertEntry(FALSE, FALSE, <<>>), CertEntry(TRUE, FALSE, <<>>)}
    \cup {CertEntry(TRUE, TRUE, b) : b \in Blobs}

JoinEntry(o, t, u) == [open |-> o, tenant_id |-> t, user_email |-> u]
JoinEntries ==
    {JoinEntry(FALSE, None, None),
     JoinEntry(TRUE, None, Some("bob@example.com")),
     JoinEntry(TRUE, Some("tenantA"), None),
     JoinEntry(TRUE, Some("tenantA"), Some("bob@example.com")),
     JoinEntry(TRUE, Some("tenantB"), Some("bob@example.com"))}

SeqsUpTo(S, n) == UNION {[1..k -> S] : k \in 0..n}

\* Which subtree-level open/enumeration fails, if any
SubtreeFailures == {"none", "certs_open", "certs_keys", "join_open", "join_keys"}

MkRegistry(f, cs, js) ==
    [certs_open |-> f # "certs_open", certs_keys |-> f # "certs_keys",
     certs |-> cs,
     join_open |-> f # "join_open", join_keys |-> f # "join_keys",
     joins |-> js]

\* The registry content of a joined device
JoinedCerts == <<CertEntry(TRUE, TRUE, CertDer(1, 3))>>
JoinedTenants == <<JoinEntry(TRUE, Some("tenantA"), Some("bob@example.com"))>>
RegistryJoined == MkRegistry("none", JoinedCerts, JoinedTenants)
\* The subtree failures the pipeline specification draws from: none, and an
\* unreadable certificate store
SampleFailures == {"none", "certs_open"}

\* ------------------------------------------------------------------------
\* State
\* ------------------------------------------------------------------------
VARIABLES
    clock,            \* the monotonic clock read by Instant::now()
    debounce,         \* ctx.debounce: Option<Duration>
    last_call,        \* ctx.last_call: the Option<Instant> inside the Mutex
    guard,            \* the thread holding the ctx.last_call MutexGuard
    writes,           \* number of writes made to last_call so far
    delivered,        \* number of notifications delivered so far
    calls,            \* debounce decisions taken, in order: (now, fired)
    pc,               \* per thread: position in handle_windows_event
    notif,            \* per thread: the notification being delivered
    event,            \* per thread: the parsed Event
    now,              \* per thread: the local `now`
    seen,             \* per thread: the write count at the read of last_call
    cb_calls,         \* per thread: events passed to the callback, this delivery
    emitted,          \* per thread: records logged, this delivery
    registry,         \* the registry contents read by the last collection pass
    device_info,      \* per thread: the result of get_entra_join_info
    identity,         \* per thread: the effective identity of the thread
    identity_before,  \* per thread: the identity when get_user_info began
    h_token,          \* per thread: the local h_token of get_user_info
    user_sid,         \* per thread: the local user_sid of get_user_info
    name_result,      \* per thread: the local `result` of GetUserNameExW
    user_info,        \* per thread: the value get_user_info returned
    crashed,          \* the process was aborted by a panic
    session,          \* per thread: what the session queries of get_user_info answered
    last_accepted,    \* history: what the callback did with the event of the
                      \* delivery that last wrote last_call
    svc_pc,           \* position of the service thread in run_service/service_loop
    watcher,          \* the Result register_event_watcher returned
    subscribed,       \* the native layer holds the subscription
    shutdown_rx,      \* number of messages waiting in the shutdown channel
    stop_sent,        \* the control handler has sent the shutdown signal
    service_state,    \* the state last reported to the service manager
    svc_log,          \* records logged by the service thread
    ctx               \* the heap EventSubscriptionContext behind ctx_ptr

gateVars == <<debounce, last_call, guard, writes, calls>>
deliveryVars == <<notif, event, now, seen, cb_calls>>
deviceVars == <<registry, device_info>>
userVars == <<identity, identity_before, h_token, user_sid, name_result,
              user_info>>
serviceVars == <<svc_pc, watcher, subscribed, shutdown_rx, stop_sent,
                 service_state, svc_log, ctx>>
vars == <<clock, delivered, pc, emitted, crashed, session, last_accepted,
          serviceVars, gateVars, deliveryVars, deviceVars, userVars>>

\* main.rs line 106: Some(Duration::from_millis(100)); one clock tick is 50 ms
Window == 2
\* The debounce arguments register_event_watcher is modelled with
DebounceValues == {None, Some(0), Some(Window)}

NoDeviceInfo == [kind |-> "none", results |-> <<>>]
NoUserInfo == [kind |-> "none_yet"]
NoSid == <<>>

\* The SIDs WTSQueryUserToken/GetTokenInformation yield in the model
SidCloud == <<"S","-","1","-","1","2","-","1","-","1","-","2","-","3","-","4">>
\* A cloud SID with sub-authorities of more than one byte
SidCloudBig == <<"S","-","1","-","1","2","-","1","-","2","5","8","-",
                 "6","5","5","3","7","-",
                 "4","2","9","4","9","6","7","2","9","5","-","0">>
\* A cloud SID with three sub-authorities after the prefix
SidCloudShort == <<"S","-","1","-","1","2","-","1","-","1","-","2","-","3">>
\* A SID of authority 12 whose first sub-authority is 10, not 1
SidCloudLike == <<"S","-","1","-","1","2","-","1","0","-","5","-","6","-","7","-","8">>
UserSids == {SidAlice, SidCloud, SidCloudBig, SidCloudShort, SidCloudLike}

InitThreads ==
    /\ pc = [t \in Threads |-> "idle"]
    /\ notif = [t \in Threads |-> NoNotification]
    /\ event = [t \in Threads |-> NoEvent]
    /\ now = [t \in Threads |-> 0]
    /\ seen = [t \in Threads |-> 0]
    /\ cb_calls = [t \in Threads |-> <<>>]
    /\ emitted = [t \in Threads |-> <<>>]
    /\ device_info = [t \in Threads |-> NoDeviceInfo]
    /\ identity = [t \in Threads |-> "self"]
    /\ identity_before = [t \in Threads |-> "self"]
    /\ h_token = [t \in Threads |-> "null"]
    /\ user_sid = [t \in Threads |-> NoSid]
    /\ name_result = [t \in Threads |-> FALSE]
    /\ user_info = [t \in Threads |-> NoUserInfo]
    /\ session = [t \in Threads |-> "none"]

WatcherStarted == [action |-> "logon_watcher_start", level |-> "info"]
WatcherFailed == [action |-> "logon_watcher_start", level |-> "error"]

\* main.rs lines 106-117: the service thread once register_event_watcher has
\* returned Ok(()), the result is logged and the polling loop is entered
InitRegistered ==
    /\ svc_pc = "polling"
    /\ watcher = "ok"
    /\ subscribed = TRUE
    /\ shutdown_rx = 0
    /\ stop_sent = FALSE
    /\ service_state = "Running"
    /\ svc_log = <<WatcherStarted>>
    /\ ctx = "allocated"

\* The state once register_event_watcher has returned Ok(())
Init ==
    /\ clock = 0
    /\ debounce \in DebounceValues
    /\ last_call = None
    /\ guard = NoThread
    /\ writes = 0
    /\ delivered = 0
    /\ calls = <<>>
    /\ registry = RegistryJoined
    /\ crashed = FALSE
    /\ last_accepted = "none"
    /\ InitThreads
    /\ InitRegistered

\* ------------------------------------------------------------------------
\* handle_windows_event (event_watcher.rs, lines 110-157)
\* ------------------------------------------------------------------------
\* Time passes
Tick ==
    /\ clock < MaxClock
    /\ clock' = clock + 1
    /\ UNCHANGED <<serviceVars, session, last_accepted,
                   delivered, pc, emitted, crashed,
                   gateVars, deliveryVars, deviceVars, userVars>>

\* The native layer calls handle_windows_event on dispatch thread t
Deliver(t, notifications, max) ==
    /\ ~crashed
    /\ subscribed
    /\ pc[t] = "idle"
    /\ delivered < max
    /\ \E n \in notifications : notif' = [notif EXCEPT ![t] = n]
    /\ delivered' = delivered + 1
    /\ pc' = [pc EXCEPT ![t] = "hwe_entry"]
    /\ UNCHANGED <<serviceVars, session, last_accepted,
                   clock, emitted, crashed, gateVars, event, now, seen, cb_calls,
                   deviceVars, userVars>>

\* Lines 111-138: render, parse, and dispatch on ctx.debounce.  An error is
\* logged and the handler returns; without a window the callback is called at
\* once; with a window `now` is sampled before the lock is taken.
Classify(t) ==
    /\ ~crashed
    /\ pc[t] = "hwe_entry"
    /\ LET res == event_result(notif[t])
       IN IF ~res.ok
          THEN /\ emitted' = [emitted EXCEPT ![t] =
                      Append(@, [action |-> "event_watcher", level |-> "error"])]
               /\ pc' = [pc EXCEPT ![t] = "hwe_return"]
               /\ UNCHANGED <<event, now>>
          ELSE /\ event' = [event EXCEPT ![t] = res.val]
               /\ IF ~debounce.some
                  THEN /\ pc' = [pc EXCEPT ![t] = "callback"]
                       /\ UNCHANGED now
                  ELSE /\ now' = [now EXCEPT ![t] = clock]
                       /\ pc' = [pc EXCEPT ![t] = "hwe_lock"]
               /\ UNCHANGED emitted
    /\ UNCHANGED <<serviceVars, session, last_accepted,
                   clock, delivered, crashed, gateVars, notif, seen, cb_calls,
                   deviceVars, userVars>>

\* Mutant: a lock that never blocks
MutexFree_always(t) == TRUE

\* Mutex::lock: blocks while another delivery holds the guard
MutexFree(t) == guard = NoThread

\* Line 139: ctx.last_call.lock().unwrap()
Lock(t) ==
    /\ ~crashed
    /\ pc[t] = "hwe_lock"
    /\ MutexFree(t)
    /\ guard' = t
    /\ pc' = [pc EXCEPT ![t] = "hwe_decide"]
    /\ UNCHANGED <<serviceVars, session, last_accepted,
                   clock, delivered, emitted, crashed, debounce, last_call, writes,
                   calls, deliveryVars, deviceVars, userVars>>

\* Lines 141-146: read *last_call and decide
Decide(t) ==
    /\ ~crashed
    /\ pc[t] = "hwe_decide"
    /\ seen' = [seen EXCEPT ![t] = writes]
    /\ LET fire == should_call(last_call, now[t], debounce.val)
       IN /\ calls' = Append(calls, [now |-> now[t], fired |-> fire])
          /\ pc' = [pc EXCEPT ![t] = IF fire THEN "hwe_write" ELSE "cb_done"]
    /\ UNCHANGED <<serviceVars, session, last_accepted,
                   clock, delivered, emitted, crashed, debounce, last_call, guard,
                   writes, notif, event, now, cb_calls, deviceVars, userVars>>

\* Mutant: last_call is written only for an event that passes the whitelist
Write_collected_only(t) ==
    /\ ~crashed
    /\ pc[t] = "hwe_write"
    /\ last_call' = IF logon_logoff_event_callback(event[t]).collect
                    THEN Some(now[t]) ELSE last_call
    /\ writes' = writes + 1
    /\ last_accepted' = IF logon_logoff_event_callback(event[t]).collect
                        THEN "collected" ELSE "ignored"
    /\ pc' = [pc EXCEPT ![t] = "callback"]
    /\ UNCHANGED <<serviceVars, session, clock, delivered, emitted, crashed,
                   debounce, guard, calls, deliveryVars, deviceVars, userVars>>

\* Line 147: *last_call = Some(now)
Write(t) ==
    /\ ~crashed
    /\ pc[t] = "hwe_write"
    /\ last_call' = Some(now[t])
    /\ writes' = writes + 1
    /\ last_accepted' = IF logon_logoff_event_callback(event[t]).collect
                        THEN "collected" ELSE "ignored"
    /\ pc' = [pc EXCEPT ![t] = "callback"]
    /\ UNCHANGED <<serviceVars, session,
                   clock, delivered, emitted, crashed, debounce, guard, calls,
                   deliveryVars, deviceVars, userVars>>

\* Mutant: the Event of another delivery is passed on
callback_argument_other(t) == event[CHOOSE u \in Threads : u # t]

\* The Event the handler moves into the callback
callback_argument(t) == event[t]

\* Lines 135 and 148: (ctx.callback)(event), up to the call of collect_logs
Callback(t) ==
    /\ ~crashed
    /\ pc[t] = "callback"
    /\ LET arg == callback_argument(t)
           out == logon_logoff_event_callback(arg)
       IN /\ cb_calls' = [cb_calls EXCEPT ![t] = Append(@, arg)]
          /\ emitted' = [emitted EXCEPT ![t] = @ \o out.records]
          /\ pc' = [pc EXCEPT ![t] = IF out.collect THEN "collect_logs" ELSE "cb_done"]
    /\ UNCHANGED <<serviceVars, session, last_accepted,
                   clock, delivered, crashed, gateVars, notif, event, now, seen,
                   deviceVars, userVars>>

\* Line 150: the callback has returned; the MutexGuard, if taken, is dropped
DropGuard(t) ==
    /\ ~crashed
    /\ pc[t] = "cb_done"
    /\ guard' = IF guard = t THEN NoThread ELSE guard
    /\ pc' = [pc EXCEPT ![t] = "hwe_return"]
    /\ UNCHANGED <<serviceVars, session, last_accepted,
                   clock, delivered, emitted, crashed, debounce, last_call, writes,
                   calls, deliveryVars, deviceVars, userVars>>

\* Line 156: the handler returns 0 to the native layer; its locals are gone
Return(t) ==
    /\ ~crashed
    /\ pc[t] = "hwe_return"
    /\ pc' = [pc EXCEPT ![t] = "idle"]
    /\ notif' = [notif EXCEPT ![t] = NoNotification]
    /\ event' = [event EXCEPT ![t] = NoEvent]
    /\ now' = [now EXCEPT ![t] = 0]
    /\ seen' = [seen EXCEPT ![t] = 0]
    /\ cb_calls' = [cb_calls EXCEPT ![t] = <<>>]
    /\ emitted' = [emitted EXCEPT ![t] = <<>>]
    /\ device_info' = [device_info EXCEPT ![t] = NoDeviceInfo]
    /\ h_token' = [h_token EXCEPT ![t] = "null"]
    /\ user_sid' = [user_sid EXCEPT ![t] = NoSid]
    /\ name_result' = [name_result EXCEPT ![t] = FALSE]
    /\ user_info' = [user_info EXCEPT ![t] = NoUserInfo]
    /\ session' = [session EXCEPT ![t] = "none"]
    /\ UNCHANGED <<serviceVars, last_accepted,
                   clock, delivered, crashed, gateVars, registry, identity,
                   identity_before>>

\* ------------------------------------------------------------------------
\* Cloud SID decoding (user_info.rs, lines 94-115)
\* ------------------------------------------------------------------------
CloudPrefix == <<"S","-","1","-","1","2","-","1","-">>
CloudTypePrefix == <<"S","-","1","-","1","2","-","1">>

Drop(s, n) == SubSeq(s, n + 1, Len(s))

\* str::replace(pat, ""): every occurrence of pat is removed, left to right
RECURSIVE remove_all(_, _)
remove_all(s, pat) ==
    IF s = <<>> THEN <<>>
    ELSE IF starts_with(s, pat) THEN remove_all(Drop(s, Len(pat)), pat)
    ELSE <<s[1]>> \o remove_all(Tail(s), pat)

\* str::split('-'), with the part collected so far
RECURSIVE split_dash(_, _)
split_dash(s, part) ==
    IF s = <<>> THEN <<part>>
    ELSE IF s[1] = "-" THEN <<part>> \o split_dash(Tail(s), <<>>)
    ELSE split_dash(Tail(s), Append(part, s[1]))

Digits == <<"0","1","2","3","4","5","6","7","8","9">>
is_digit(c) == \E d \in 1..10 : Digits[d] = c
digit_value(c) == (CHOOSE d \in 1..10 : Digits[d] = c) - 1

\* A u32 is kept as its two 16-bit halves: value = hi * 65536 + lo
U32(hi, lo) == [hi |-> hi, lo |-> lo]

\* The decimal accumulation of u32::from_str; `over` once the value has
\* exceeded u32::MAX
RECURSIVE decimal(_, _)
decimal(s, acc) ==
    IF s = <<>> \/ acc.over THEN acc
    ELSE LET lo == acc.n.lo * 10 + digit_value(s[1])
             hi == acc.n.hi * 10 + (lo \div 65536)
         IN decimal(Tail(s), [over |-> hi >= 65536,
                              n |-> U32(hi % 65536, lo % 65536)])

\* str::parse::<u32>().ok(): an optional '+', then digits, at most u32::MAX
parse_u32(part) ==
    LET digits == IF part # <<>> /\ part[1] = "+" THEN Tail(part) ELSE part
        parsed == decimal(digits, [over |-> FALSE, n |-> U32(0, 0)])
    IN IF digits = <<>> \/ \E i \in 1..Len(digits) : ~is_digit(digits[i])
       THEN None
       ELSE IF parsed.over THEN None
       ELSE Some(parsed.n)

\* filter_map(|part| part.parse::<u32>().ok())
RECURSIVE filter_parse(_)
filter_parse(parts) ==
    IF parts = <<>> THEN <<>>
    ELSE LET p == parse_u32(parts[1])
         IN (IF p.some THEN <<p.val>> ELSE <<>>) \o filter_parse(Tail(parts))

\* u32::to_le_bytes
to_le_bytes(n) ==
    <<n.lo % 256, n.lo \div 256, n.hi % 256, n.hi \div 256>>

\* convert_azure_ad_sid_to_object_id: the 16 bytes of the Uuid, whose
\* to_string is their hyphenated lower-case hexadecimal rendering
convert_azure_ad_sid_to_object_id(sid) ==
    LET stripped == remove_all(sid, CloudPrefix)
        parts == filter_parse(split_dash(stripped, <<>>))
    IN IF Len(parts) < 4 THEN None
       ELSE Some(to_le_bytes(parts[1]) \o to_le_bytes(parts[2])
                 \o to_le_bytes(parts[3]) \o to_le_bytes(parts[4]))

\* Lines 164-168: the user type of a SID
user_type_of(sid) ==
    IF starts_with(sid, CloudTypePrefix) THEN "AzureAD" ELSE "DomainOrLocal"

\* ------------------------------------------------------------------------
\* collect_logs (mod.rs) and get_user_info (user_info.rs), step by step
\* ------------------------------------------------------------------------
\* mod.rs lines 9-19: get_entra_join_info on the registry as it is now, and the
\* logging of its result.  A panic inside the extern "system" handler aborts
\* the process.
CollectDeviceInfo(t, failures, cert_lists, join_lists) ==
    /\ ~crashed
    /\ pc[t] = "collect_logs"
    /\ \E f \in failures, cs \in cert_lists, js \in join_lists :
         LET reg == MkRegistry(f, cs, js)
             res == get_entra_join_info(reg)
         IN /\ registry' = reg
            /\ IF res.kind = "panic"
               THEN /\ crashed' = TRUE
                    /\ pc' = [pc EXCEPT ![t] = "aborted"]
                    /\ UNCHANGED <<device_info, emitted>>
               ELSE /\ device_info' = [device_info EXCEPT ![t] = res]
                    /\ emitted' = [emitted EXCEPT ![t] =
                           IF res.kind = "err"
                           THEN Append(@, [action |-> "tenant_info", level |-> "error"])
                           ELSE @ \o [i \in 1..Len(res.results) |->
                                        [action |-> "tenant_info", level |-> "info",
                                         tenant_id |-> res.results[i].tenant_id,
                                         device_id |-> res.results[i].device_id,
                                         registered_user |->
                                             res.results[i].registered_user]]]
                    /\ pc' = [pc EXCEPT ![t] = "gui_session"]
                    /\ UNCHANGED crashed
    /\ UNCHANGED <<serviceVars, session, last_accepted,
                   clock, delivered, gateVars, deliveryVars, userVars>>

UserErr(where) == [kind |-> "err", at |-> where]
UserNone == [kind |-> "none"]
UserSome(info) == [kind |-> "some", info |-> info]

\* What the session queries of lines 126-150 can answer
SessionAnswers == {"no_session", "query_failed", "null_buffer", "undersized",
                   "WTSConnected", "WTSActive", "WTSDisconnected"}

\* Mutant: a session that is merely connected is taken for a logged-on one
session_result_connected(a) ==
    CASE a \in {"WTSActive", "WTSDisconnected", "WTSConnected"} -> "proceed"
      [] a = "no_session" -> "none"
      [] OTHER -> "err"

\* Lines 127-150: what get_user_info does with the answer: go on to the
\* token, return Ok(None), or return Err
session_result(a) ==
    CASE a \in {"WTSActive", "WTSDisconnected"} -> "proceed"
      [] a \in {"no_session", "WTSConnected"} -> "none"
      [] OTHER -> "err"

\* Lines 126-150: WTSGetActiveConsoleSessionId and WTSQuerySessionInformationA
QuerySession(t) ==
    /\ ~crashed
    /\ pc[t] = "gui_session"
    /\ identity_before' = [identity_before EXCEPT ![t] = identity[t]]
    /\ \E a \in SessionAnswers :
         /\ session' = [session EXCEPT ![t] = a]
         /\ CASE session_result(a) = "proceed" ->
                  /\ pc' = [pc EXCEPT ![t] = "gui_token"]
                  /\ UNCHANGED user_info
              [] session_result(a) = "none" ->
                  /\ user_info' = [user_info EXCEPT ![t] = UserNone]
                  /\ pc' = [pc EXCEPT ![t] = "gui_returned"]
              [] OTHER ->
                  /\ user_info' = [user_info EXCEPT ![t] = UserErr(a)]
                  /\ pc' = [pc EXCEPT ![t] = "gui_returned"]
    /\ UNCHANGED <<serviceVars, last_accepted,
                   clock, delivered, emitted, crashed, gateVars, deliveryVars,
                   deviceVars, identity, h_token, user_sid,
                   name_result>>

\* Lines 153-157: WTSQueryUserToken
QueryUserToken(t) ==
    /\ ~crashed
    /\ pc[t] = "gui_token"
    /\ \E ok \in BOOLEAN :
         IF ok
         THEN /\ h_token' = [h_token EXCEPT ![t] = "open"]
              /\ pc' = [pc EXCEPT ![t] = "gui_sid"]
              /\ UNCHANGED user_info
         ELSE /\ user_info' = [user_info EXCEPT ![t] = UserErr("WTSQueryUserToken")]
              /\ pc' = [pc EXCEPT ![t] = "gui_returned"]
              /\ UNCHANGED h_token
    /\ UNCHANGED <<serviceVars, session, last_accepted,
                   clock, delivered, emitted, crashed, gateVars, deliveryVars,
                   deviceVars, identity, identity_before, user_sid, name_result>>

\* Line 161: get_user_sid_from_token(h_token)?
GetUserSid(t) ==
    /\ ~crashed
    /\ pc[t] = "gui_sid"
    /\ \/ \E sid \in UserSids :
            /\ user_sid' = [user_sid EXCEPT ![t] = sid]
            /\ pc' = [pc EXCEPT ![t] = "gui_impersonate"]
            /\ UNCHANGED user_info
       \/ /\ user_info' = [user_info EXCEPT ![t] = UserErr("get_user_sid_from_token")]
          /\ pc' = [pc EXCEPT ![t] = "gui_returned"]
          /\ UNCHANGED user_sid
    /\ UNCHANGED <<serviceVars, session, last_accepted,
                   clock, delivered, emitted, crashed, gateVars, deliveryVars,
                   deviceVars, identity, identity_before, h_token,
                   name_result>>

\* Lines 171-174: ImpersonateLoggedOnUser(h_token)
Impersonate(t) ==
    /\ ~crashed
    /\ pc[t] = "gui_impersonate"
    /\ \E ok \in BOOLEAN :
         IF ok
         THEN /\ identity' = [identity EXCEPT ![t] = "user"]
              /\ pc' = [pc EXCEPT ![t] = "gui_username"]
              /\ UNCHANGED user_info
         ELSE /\ user_info' = [user_info EXCEPT ![t] =
                                   UserErr("ImpersonateLoggedOnUser")]
              /\ pc' = [pc EXCEPT ![t] = "gui_returned"]
              /\ UNCHANGED identity
    /\ UNCHANGED <<serviceVars, session, last_accepted,
                   clock, delivered, emitted, crashed, gateVars, deliveryVars,
                   deviceVars, identity_before, h_token, user_sid,
                   name_result>>

\* Lines 176-184: GetUserNameExW in the form the user type asks for
GetUserName(t) ==
    /\ ~crashed
    /\ pc[t] = "gui_username"
    /\ \E ok \in BOOLEAN : name_result' = [name_result EXCEPT ![t] = ok]
    /\ pc' = [pc EXCEPT ![t] = "gui_revert"]
    /\ UNCHANGED <<serviceVars, session, last_accepted,
                   clock, delivered, emitted, crashed, gateVars, deliveryVars,
                   deviceVars, identity, identity_before, h_token,
                   user_sid, user_info>>

\* Lines 186-189: RevertToSelf(); a failed revert leaves the thread as it was
Revert(t) ==
    /\ ~crashed
    /\ pc[t] = "gui_revert"
    /\ \E ok \in BOOLEAN :
         IF ok
         THEN /\ identity' = [identity EXCEPT ![t] = "self"]
              /\ pc' = [pc EXCEPT ![t] = "gui_close"]
              /\ UNCHANGED user_info
         ELSE /\ user_info' = [user_info EXCEPT ![t] = UserErr("RevertToSelf")]
              /\ pc' = [pc EXCEPT ![t] = "gui_returned"]
              /\ UNCHANGED identity
    /\ UNCHANGED <<serviceVars, session, last_accepted,
                   clock, delivered, emitted, crashed, gateVars, deliveryVars,
                   deviceVars, identity_before, h_token, user_sid,
                   name_result>>

\* Mutant: the identifier is decoded whatever the user type
current_user_info_any(sid) ==
    [sid |-> sid,
     username |-> IF user_type_of(sid) = "AzureAD" THEN "NameUserPrincipal"
                  ELSE "NameSamCompatible",
     user_type |-> user_type_of(sid),
     azure_ad_object_id |-> convert_azure_ad_sid_to_object_id(sid)]

\* Lines 202-214: the record returned on success
current_user_info(sid) ==
    [sid |-> sid,
     username |-> IF user_type_of(sid) = "AzureAD" THEN "NameUserPrincipal"
                  ELSE "NameSamCompatible",
     user_type |-> user_type_of(sid),
     azure_ad_object_id |-> IF user_type_of(sid) = "AzureAD"
                            THEN convert_azure_ad_sid_to_object_id(sid)
                            ELSE None]

\* Lines 191-214: CloseHandle(h_token), the check of `result`, the record
CloseToken(t) ==
    /\ ~crashed
    /\ pc[t] = "gui_close"
    /\ \E ok \in BOOLEAN :
         IF ok
         THEN /\ h_token' = [h_token EXCEPT ![t] = "closed"]
              /\ user_info' = [user_info EXCEPT ![t] =
                     IF name_result[t] THEN UserSome(current_user_info(user_sid[t]))
                     ELSE UserErr("GetUserNameExW")]
         ELSE /\ user_info' = [user_info EXCEPT ![t] = UserErr("CloseHandle")]
              /\ UNCHANGED h_token
    /\ pc' = [pc EXCEPT ![t] = "gui_returned"]
    /\ UNCHANGED <<serviceVars, session, last_accepted,
                   clock, delivered, emitted, crashed, gateVars, deliveryVars,
                   deviceVars, identity, identity_before, user_sid, name_result>>

\* mod.rs lines 21-41: the logging of what get_user_info returned
LogUserInfo(t) ==
    /\ ~crashed
    /\ pc[t] = "gui_returned"
    /\ emitted' = [emitted EXCEPT ![t] = Append(@,
           CASE user_info[t].kind = "some" ->
                    [action |-> "current_user_info", level |-> "info",
                     user_sid |-> user_info[t].info.sid,
                     username |-> user_info[t].info.username,
                     user_type |-> user_info[t].info.user_type,
                     azure_ad_object_id |-> user_info[t].info.azure_ad_object_id]
             [] user_info[t].kind = "none" ->
                    [action |-> "current_user_info", level |-> "info",
                     message |-> "No user currently logged in"]
             [] OTHER -> [action |-> "current_user_info", level |-> "error"])]
    /\ pc' = [pc EXCEPT ![t] = "cb_done"]
    /\ UNCHANGED <<serviceVars, session, last_accepted,
                   clock, delivered, crashed, gateVars, deliveryVars, deviceVars,
                   userVars>>

\* ------------------------------------------------------------------------
\* Specifications
\* ------------------------------------------------------------------------
\* The steps of one delivery that follow the call of collect_logs
CollectStep(t, failures, cert_lists, join_lists) ==
    \/ CollectDeviceInfo(t, failures, cert_lists, join_lists)
    \/ QuerySession(t)
    \/ QueryUserToken(t)
    \/ GetUserSid(t)
    \/ Impersonate(t)
    \/ GetUserName(t)
    \/ Revert(t)
    \/ CloseToken(t)
    \/ LogUserInfo(t)

\* The steps of handle_windows_event up to the callback, and its return
GateStep(t) ==
    \/ Classify(t)
    \/ Lock(t)
    \/ Decide(t)
    \/ Write(t)
    \/ Callback(t)
    \/ DropGuard(t)
    \/ Return(t)

\* The whole pipeline with deliveries serialized on one dispatch thread
Next ==
    \/ Tick
    \/ Deliver("t1", Notifications, MaxDeliveries)
    \/ GateStep("t1")
    \/ CollectStep("t1", SampleFailures, {JoinedCerts}, {JoinedTenants})

Spec == Init /\ [][Next]_vars

\* Notifications whose callback returns without a collection pass
GateNotifications ==
    {Notification("EvtSubscribeActionError", FALSE, XmlMalformed),
     Notification("EvtSubscribeActionDeliver", TRUE, Xml(EvLogonUmfd)),
     Notification("EvtSubscribeActionDeliver", TRUE, Xml(EvLogoffNoData))}

\* The debounce gate with deliveries on concurrent dispatch threads; no
\* notification of GateNotifications reaches collect_logs
NextGate ==
    \/ Tick
    \/ \E t \in Threads :
         \/ Deliver(t, GateNotifications, MaxGateDeliveries)
         \/ GateStep(t)

SpecGate == Init /\ [][NextGate]_vars

\* The state of Spec in which thread t1, delivering the logon of alice with
\* no debounce window, has just called collect_logs
InitDevice ==
    /\ clock = 0
    /\ debounce = None
    /\ last_call = None
    /\ guard = NoThread
    /\ writes = 0
    /\ delivered = 1
    /\ calls = <<>>
    /\ registry = RegistryJoined
    /\ crashed = FALSE
    /\ pc = [t \in Threads |-> IF t = "t1" THEN "collect_logs" ELSE "idle"]
    /\ notif = [t \in Threads |->
                   IF t = "t1"
                   THEN Notification("EvtSubscribeActionDeliver", TRUE, Xml(EvLogonAlice))
                   ELSE NoNotification]
    /\ event = [t \in Threads |-> IF t = "t1" THEN EvLogonAlice ELSE NoEvent]
    /\ now = [t \in Threads |-> 0]
    /\ seen = [t \in Threads |-> 0]
    /\ cb_calls = [t \in Threads |-> IF t = "t1" THEN <<EvLogonAlice>> ELSE <<>>]
    /\ emitted = [t \in Threads |->
                     IF t = "t1"
                     THEN logon_logoff_event_callback(EvLogonAlice).records
                     ELSE <<>>]
    /\ device_info = [t \in Threads |-> NoDeviceInfo]
    /\ identity = [t \in Threads |-> "self"]
    /\ identity_before = [t \in Threads |-> "self"]
    /\ h_token = [t \in Threads |-> "null"]
    /\ user_sid = [t \in Threads |-> NoSid]
    /\ name_result = [t \in Threads |-> FALSE]
    /\ user_info = [t \in Threads |-> NoUserInfo]
    /\ session = [t \in Threads |-> "none"]
    /\ last_accepted = "none"
    /\ InitRegistered

\* One call of get_entra_join_info, over every modelled registry content
NextDevice ==
    CollectDeviceInfo("t1", SubtreeFailures, SeqsUpTo(CertEntries, MaxCerts),
                      SeqsUpTo(JoinEntries, MaxJoins))

SpecDevice == InitDevice /\ [][NextDevice]_vars

\* ------------------------------------------------------------------------
\* run_service and service_loop (main.rs)
\* ------------------------------------------------------------------------
\* main.rs line 71: run_service has registered the control handler, reported
\* Running and calls service_loop; nothing is subscribed yet
InitService ==
    /\ clock = 0
    /\ debounce = None
    /\ last_call = None
    /\ guard = NoThread
    /\ writes = 0
    /\ delivered = 0
    /\ calls = <<>>
    /\ registry = RegistryJoined
    /\ crashed = FALSE
    /\ last_accepted = "none"
    /\ InitThreads
    /\ svc_pc = "register"
    /\ watcher = "none"
    /\ subscribed = FALSE
    /\ shutdown_rx = 0
    /\ stop_sent = FALSE
    /\ service_state = "Running"
    /\ svc_log = <<>>
    /\ ctx = "none"

\* main.rs lines 52-56: the service manager sends Stop; the control handler
\* sends () on the shutdown channel
SendStop ==
    /\ ~stop_sent
    /\ service_state = "Running"
    /\ stop_sent' = TRUE
    /\ shutdown_rx' = shutdown_rx + 1
    /\ UNCHANGED <<ctx, clock, delivered, pc, emitted, crashed, session, last_accepted,
                   svc_pc, watcher, subscribed, service_state, svc_log,
                   gateVars, deliveryVars, deviceVars, userVars>>

\* Mutant: the context is owned by register_event_watcher and dropped when
\* it returns
context_dropped_on_return(ok) == "freed"

\* event_watcher.rs lines 91-107: Box::into_raw gives the context up to the
\* raw pointer; nothing frees it, whether EvtSubscribe succeeds or not
context_on_return(ok) == "allocated"

\* main.rs line 106 and register_event_watcher (event_watcher.rs lines
\* 84-108): the context is built with the 100 ms window, EvtSubscribe
\* succeeds or fails, and its Result is returned
Register ==
    /\ svc_pc = "register"
    /\ debounce' = Some(Window)
    /\ last_call' = None
    /\ \E ok \in BOOLEAN :
         /\ subscribed' = ok
         /\ watcher' = IF ok THEN "ok" ELSE "err"
         /\ ctx' = context_on_return(ok)
    /\ svc_pc' = "log_watcher"
    /\ UNCHANGED <<clock, delivered, pc, emitted, crashed, session, last_accepted,
                   shutdown_rx, stop_sent, service_state, svc_log,
                   guard, writes, calls, deliveryVars, deviceVars, userVars>>

\* Mutant: a failed registration ends service_loop
after_registration_fatal(w) == IF w = "err" THEN "loop_returned" ELSE "polling"

\* main.rs lines 108-117: whatever the Result, the runtime is built and the
\* polling task is spawned
after_registration(w) == "polling"

\* main.rs lines 108-111: the Result is logged
LogWatcher ==
    /\ svc_pc = "log_watcher"
    /\ svc_log' = Append(svc_log, IF watcher = "ok" THEN WatcherStarted
                                  ELSE WatcherFailed)
    /\ svc_pc' = after_registration(watcher)
    /\ UNCHANGED <<ctx, clock, delivered, pc, emitted, crashed, session, last_accepted,
                   watcher, subscribed, shutdown_rx, stop_sent, service_state,
                   gateVars, deliveryVars, deviceVars, userVars>>

\* Mutant: a receive that succeeds on an empty channel
try_recv_always(n) == TRUE

\* main.rs line 122: shutdown_rx.try_recv().is_ok() on a channel of n messages
try_recv(n) == n > 0

ShutdownReceived == [action |-> "service_shutdown", level |-> "info"]
ServiceStopped == [action |-> "service_stopped", level |-> "info"]

\* main.rs lines 119-133: one tick of the 100 ms interval.  A received
\* signal is logged, the task breaks, select! completes and service_loop
\* returns; otherwise the task waits for the next tick.
Poll ==
    /\ svc_pc = "polling"
    /\ IF try_recv(shutdown_rx)
       THEN /\ shutdown_rx' = IF shutdown_rx > 0 THEN shutdown_rx - 1 ELSE 0
            /\ svc_log' = Append(svc_log, ShutdownReceived)
            /\ svc_pc' = "loop_returned"
       ELSE UNCHANGED <<shutdown_rx, svc_log, svc_pc>>
    /\ UNCHANGED <<ctx, clock, delivered, pc, emitted, crashed, session, last_accepted,
                   watcher, subscribed, stop_sent, service_state,
                   gateVars, deliveryVars, deviceVars, userVars>>

\* main.rs lines 72-82: service_loop has returned; run_service logs it and
\* reports Stopped, returning the error if the report fails
SetStopped ==
    /\ svc_pc = "loop_returned"
    /\ svc_log' = Append(svc_log, ServiceStopped)
    /\ \E ok \in BOOLEAN :
         service_state' = IF ok THEN "Stopped" ELSE service_state
    /\ svc_pc' = "run_returned"
    /\ UNCHANGED <<ctx, clock, delivered, pc, emitted, crashed, session, last_accepted,
                   watcher, subscribed, shutdown_rx, stop_sent,
                   gateVars, deliveryVars, deviceVars, userVars>>

\* The steps of the service thread
ServiceThread == Register \/ LogWatcher \/ Poll \/ SetStopped

\* The service thread, the service manager and one native dispatch thread
NextService ==
    \/ ServiceThread
    \/ SendStop
    \/ Tick
    \/ Deliver("t1", GateNotifications, MaxServiceDeliveries)
    \/ GateStep("t1")

SpecService == InitService /\ [][NextService]_vars

\* The service thread is scheduled: straight-line code goes on, and the
\* interval of the polling task keeps ticking
SpecServiceFair == SpecService /\ WF_vars(ServiceThread)

\* ------------------------------------------------------------------------
\* Concurrent deliveries that reach collect_logs
\* ------------------------------------------------------------------------
\* register_event_watcher was called with the window service_loop passes
InitWindowed == Init /\ debounce = Some(Window)

\* A logon that starts a collection pass and one the whitelist ignores
WindowedNotifications ==
    {Notification("EvtSubscribeActionDeliver", TRUE, Xml(EvLogonAlice)),
     Notification("EvtSubscribeActionDeliver", TRUE, Xml(EvLogonUmfd))}

\* Deliveries on concurrent dispatch threads, each running the whole handler,
\* the collection pass included, on a joined device
NextWindowed ==
    \/ Tick
    \/ \E t \in Threads :
         \/ Deliver(t, WindowedNotifications, MaxWindowedDeliveries)
         \/ GateStep(t)
         \/ CollectStep(t, {"none"}, {JoinedCerts}, {JoinedTenants})

SpecWindowed == InitWindowed /\ [][NextWindowed]_vars

\* ------------------------------------------------------------------------
\* Properties
\* ------------------------------------------------------------------------
\* The notification can be turned into an Event: a delivered event that
\* renders to well-formed XML
Parseable(n) ==
    n.action = "EvtSubscribeActionDeliver" /\ n.renders /\ n.xml.wellformed

\* Thread t takes a step from position p
Leaves(t, p) == pc[t] = p /\ pc'[t] # p

\* C1, the case of no window: a parsed notification goes to the callback
C1_NoWindow ==
    \A t \in Threads :
        (Leaves(t, "hwe_entry") /\ Parseable(notif[t]) /\ ~debounce.some)
            => pc'[t] = "callback"

\* C1, the decision under a window: the delivery goes on to the write and
\* the callback iff there is no earlier invocation or the time elapsed from
\* last_call to its own `now` (zero if `now` is the earlier) is >= the window
C1_Decision ==
    \A t \in Threads :
        Leaves(t, "hwe_decide") =>
            LET elapsed == IF now[t] >= last_call.val
                           THEN now[t] - last_call.val ELSE 0
                fire == ~last_call.some \/ elapsed >= debounce.val
            IN /\ debounce.some
               /\ fire => pc'[t] = "hwe_write"
               /\ ~fire => (pc'[t] = "cb_done" /\ cb_calls'[t] = <<>>
                            /\ last_call' = last_call)

\* C1, the invocation under a window: last_call is set to the `now` of the
\* delivery, and the callback is called once
C1_Invocation ==
    \A t \in Threads :
        /\ Leaves(t, "hwe_write") =>
               (last_call' = Some(now[t]) /\ pc'[t] = "callback")
        /\ Leaves(t, "callback") => Len(cb_calls'[t]) = 1

\* C1, the example: decisions at t0, t0+W/2, t0+W, t0+2W of a window W > 0
\* fire, are suppressed, fire, fire
C1_Example ==
    (/\ debounce.some
     /\ debounce.val > 0
     /\ Len(calls) >= 4
     /\ calls[2].now = calls[1].now + (debounce.val \div 2)
     /\ calls[3].now = calls[1].now + debounce.val
     /\ calls[4].now = calls[1].now + 2 * debounce.val)
        => (calls[1].fired /\ ~calls[2].fired /\ calls[3].fired /\ calls[4].fired)

\* C1: debounce policy of handle_windows_event.  The callback is invoked for
\* a parsed notification iff no window is configured, or no earlier
\* invocation exists, or now - last_invocation >= window (an Instant
\* difference, zero when now is the earlier); every invocation under a window
\* sets last_invocation to that now; for deliveries at t0, t0+W/2, t0+W,
\* t0+2W exactly those at t0, t0+W and t0+2W invoke the callback.
C1_DebouncePolicy ==
    /\ []C1_Example
    /\ [][C1_NoWindow /\ C1_Decision /\ C1_Invocation]_vars

\* C1 witness: the four decisions of the example have been taken
C1_Witness ==
    /\ debounce = Some(Window)
    /\ calls = <<[now |-> 0, fired |-> TRUE],
                 [now |-> Window \div 2, fired |-> FALSE],
                 [now |-> Window, fired |-> TRUE],
                 [now |-> 2 * Window, fired |-> TRUE]>>

\* The read of last_call, the decision and the write of last_call
DebounceSection == {"hwe_decide", "hwe_write"}

\* C4: mutual exclusion of the debounce guard.  At most one delivery at a
\* time is between its read of last_invocation and its write of it, and it
\* holds the guard; a delivery that invokes the callback writes over the very
\* value it read, so no two deliveries observe the same prior value and
\* both invoke.
C4_GuardMutualExclusion ==
    /\ [](\A t, u \in Threads :
             (pc[t] \in DebounceSection /\ pc[u] \in DebounceSection) => t = u)
    /\ [](\A t \in Threads : pc[t] \in DebounceSection => guard = t)
    /\ [][\A t \in Threads : Leaves(t, "hwe_write") => seen[t] = writes]_vars

\* C4 witness: one delivery is about to write last_call while a concurrent
\* delivery of the same subscription waits for the guard
C4_Witness ==
    \E t, u \in Threads :
        /\ t # u
        /\ pc[t] = "hwe_write"
        /\ pc[u] = "hwe_lock"
        /\ last_call.some

\* C8: suppressed events are dropped.  The callback is invoked at most once
\* per notification, only while that notification is being delivered and
\* with the Event parsed from it; a suppressed delivery invokes nothing, and
\* no Event is kept once the handler has returned.
C8_SuppressedDropped ==
    /\ [](\A t \in Threads :
             /\ Len(cb_calls[t]) <= 1
             /\ cb_calls[t] # <<>> =>
                    (/\ Parseable(notif[t])
                     /\ cb_calls[t][1] = MkEvent(notif[t].xml.event_id,
                                                 notif[t].xml.event_data))
             /\ pc[t] = "idle" =>
                    (event[t] = NoEvent /\ notif[t] = NoNotification
                     /\ cb_calls[t] = <<>>))
    /\ [][\A t \in Threads :
             /\ (Leaves(t, "hwe_decide") /\ pc'[t] # "hwe_write") =>
                    (pc'[t] = "cb_done" /\ cb_calls'[t] = <<>>)
             /\ (Leaves(t, "cb_done") \/ Leaves(t, "hwe_lock")) =>
                    cb_calls'[t] = cb_calls[t]
             /\ cb_calls'[t] # cb_calls[t] =>
                    (pc[t] = "callback" \/ pc[t] = "hwe_return")]_vars

\* C8 witness: a suppressed delivery returns without a call, while another
\* delivery has called the callback with its own, different Event
C8_Witness ==
    \E t, u \in Threads :
        /\ t # u
        /\ debounce.some
        /\ pc[t] = "hwe_return"
        /\ Parseable(notif[t])
        /\ cb_calls[t] = <<>>
        /\ cb_calls[u] # <<>>
        /\ cb_calls[u][1] # event[t]

\* C2: impersonation scope of get_user_info.  Whenever get_user_info has
\* returned, on any path, the effective identity of the calling thread is the
\* identity it held when the call began.
C2_ImpersonationReverted ==
    \A t \in Threads :
        pc[t] = "gui_returned" => identity[t] = identity_before[t]

\* C3: token release of get_user_info.  Whenever get_user_info has returned,
\* on any path, the session user token it acquired is no longer open.
C3_TokenClosed ==
    \A t \in Threads : pc[t] = "gui_returned" => h_token[t] # "open"

\* Every open and read of the registry content succeeds
RegistryReadable(reg) ==
    /\ reg.certs_open /\ reg.certs_keys /\ reg.join_open /\ reg.join_keys
    /\ \A i \in 1..Len(reg.certs) : reg.certs[i].open /\ reg.certs[i].blob_ok
    /\ \A j \in 1..Len(reg.joins) :
           /\ reg.joins[j].open
           /\ reg.joins[j].tenant_id.some
           /\ reg.joins[j].user_email.some

\* C5: per-certificate failures are non-fatal.  When every registry open and
\* read succeeds, get_entra_join_info returns its records whatever the blobs
\* of the certificate entries hold: it neither aborts nor returns an error.
C5_CertificateFailuresNonFatal ==
    (pc["t1"] # "collect_logs" /\ RegistryReadable(registry))
        => (~crashed /\ device_info["t1"].kind = "ok")

\* A certificate entry from which the scan takes tenant -> some device id
CertificateFor(c, tenant) ==
    /\ c.open /\ c.blob_ok
    /\ ~certificate_bytes(c.blob).panic
    /\ LET parsed == from_der(certificate_bytes(c.blob).bytes)
       IN parsed.ok /\ parsed.val.dc = Some(tenant) /\ parsed.val.cn.some

\* C6: when get_entra_join_info succeeds it returns one record per
\* tenant-join entry, in enumeration order, and an entry whose tenant has no
\* certificate attribute has the record with the empty device_id.
C6_RecordPerTenantJoin ==
    device_info["t1"].kind = "ok" =>
        LET results == device_info["t1"].results
        IN /\ Len(results) = Len(registry.joins)
           /\ \A j \in 1..Len(results) :
                  /\ Some(results[j].tenant_id) = registry.joins[j].tenant_id
                  /\ Some(results[j].registered_user) = registry.joins[j].user_email
                  /\ (\A i \in 1..Len(registry.certs) :
                          ~CertificateFor(registry.certs[i], results[j].tenant_id))
                         => results[j].device_id = ""

\* C6 witness: two tenant-join entries, the first without a certificate
C6_Witness ==
    /\ device_info["t1"].kind = "ok"
    /\ Len(device_info["t1"].results) = 2
    /\ device_info["t1"].results[1].device_id = ""
    /\ device_info["t1"].results[2].device_id = "deviceX"

CertFails(c) == ~c.open \/ ~c.blob_ok
CertPanics(c) == ~CertFails(c) /\ certificate_bytes(c.blob).panic
JoinFails(e) == ~e.open \/ ~e.tenant_id.some \/ ~e.user_email.some

\* Some registry open or read fails during the call: the call gets as far as
\* the failing open or read
FailureOccurs(reg) ==
    \/ ~reg.certs_open
    \/ ~reg.certs_keys
    \/ \E i \in 1..Len(reg.certs) :
          /\ CertFails(reg.certs[i])
          /\ \A k \in 1..(i - 1) : ~CertPanics(reg.certs[k])
    \/ /\ \A i \in 1..Len(reg.certs) : ~CertPanics(reg.certs[i])
       /\ \/ ~reg.join_open
          \/ ~reg.join_keys
          \/ \E j \in 1..Len(reg.joins) : JoinFails(reg.joins[j])

IsDeviceRecord(r) == r.action = "tenant_info" /\ r.level = "info"

\* C7: all-or-nothing device identity collection.  If a registry open or
\* read fails during get_entra_join_info, the call returns an error with no
\* record, and collect_logs emits no device identity record for the pass.
C7_AllOrNothing ==
    (pc["t1"] # "collect_logs" /\ FailureOccurs(registry)) =>
        /\ ~crashed
        /\ device_info["t1"].kind = "err"
        /\ device_info["t1"].results = <<>>
        /\ \A i \in 1..Len(emitted["t1"]) : ~IsDeviceRecord(emitted["t1"][i])
        /\ \E i \in 1..Len(emitted["t1"]) :
               emitted["t1"][i].action = "tenant_info"
               /\ emitted["t1"][i].level = "error"

\* C7 witness: a certificate was found and the first tenant-join entry was
\* read, then the UserEmail of the second could not be read
C7_Witness ==
    /\ device_info["t1"].kind = "err"
    /\ Len(registry.certs) = 1
    /\ CertificateFor(registry.certs[1], "tenantA")
    /\ Len(registry.joins) = 2
    /\ ~JoinFails(registry.joins[1])
    /\ registry.joins[2].open
    /\ registry.joins[2].tenant_id.some
    /\ ~registry.joins[2].user_email.some

\* C9: a notification that cannot be turned into an Event is logged and
\* dropped.  While it is being delivered the callback is not invoked and
\* last_call is not written; the handler logs one error and returns.
C9_UnparseableDropped ==
    /\ [](\A t \in Threads :
             (pc[t] # "idle" /\ ~Parseable(notif[t])) =>
                 /\ pc[t] \in {"hwe_entry", "hwe_return"}
                 /\ cb_calls[t] = <<>>
                 /\ pc[t] = "hwe_return" =>
                        emitted[t] = <<[action |-> "event_watcher",
                                        level |-> "error"]>>)
    /\ [][(pc["t1"] # "idle" /\ ~Parseable(notif["t1"]))
              => (last_call' = last_call /\ writes' = writes)]_vars

\* C9 witness: after an accepted delivery has set last_call, a notification
\* whose XML does not deserialize has been logged and dropped
C9_Witness ==
    /\ pc["t1"] = "hwe_return"
    /\ notif["t1"].action = "EvtSubscribeActionDeliver"
    /\ notif["t1"].renders
    /\ ~notif["t1"].xml.wellformed
    /\ last_call.some

\* The event has event data with a TargetUserSid whose value starts with
\* neither "S-1-5-96" nor "S-1-5-90"
HasCollectableSid(ev) ==
    /\ ev.event_data.some
    /\ \E i \in 1..Len(ev.event_data.val) :
           /\ ev.event_data.val[i].name = "TargetUserSid"
           /\ ~starts_with(ev.event_data.val[i].value, S_1_5_96)
           /\ ~starts_with(ev.event_data.val[i].value, S_1_5_90)

IsLogonRecord(r) == r.action = "logon_logoff_event" /\ r.level = "info"

CollectionPass == {"collect_logs", "gui_session", "gui_token", "gui_sid",
                   "gui_impersonate", "gui_username", "gui_revert",
                   "gui_close", "gui_returned"}

\* C10: whitelist rule of the logon/logoff callback.  For every event handed
\* to the callback, a logon/logoff record is emitted and collect_logs is
\* called iff the event has event data with a TargetUserSid starting with
\* neither whitelisted prefix, whatever the event id.
C10_WhitelistRule ==
    /\ [](\A t \in Threads :
             pc[t] \in CollectionPass =>
                 (cb_calls[t] # <<>> /\ HasCollectableSid(cb_calls[t][1])))
    /\ [][\A t \in Threads :
             Leaves(t, "callback") =>
                 LET ev == cb_calls'[t][1]
                 IN /\ event_result(notif[t]) = Ok(ev)
                    /\ (pc'[t] = "collect_logs") <=> HasCollectableSid(ev)
                    /\ (\E i \in 1..Len(emitted'[t]) : IsLogonRecord(emitted'[t][i]))
                           <=> HasCollectableSid(ev)
                    /\ ~HasCollectableSid(ev) => pc'[t] = "cb_done"]_vars

\* C10 witness: an event of unknown category whose TargetUserSid, "S-1-5-9",
\* is shorter than the whitelisted prefixes has started a collection pass
C10_Witness ==
    /\ pc["t1"] = "collect_logs"
    /\ cb_calls["t1"] = <<EvUnknownShort>>
    /\ \E i \in 1..Len(emitted["t1"]) : IsLogonRecord(emitted["t1"][i])


\* get_user_info has returned to collect_logs on thread t
Returned(t) == pc[t] = "gui_returned"

\* C11: get_user_info returns Ok(None), not an error, when there is no active
\* console session or the connect state is neither Active nor Disconnected,
\* and on these paths no token is acquired and no impersonation is started;
\* a connect-state query that fails or gives a null or undersized result
\* returns an error.
C11_NoSessionIsNone ==
    \A t \in Threads :
        Returned(t) =>
            /\ session[t] \in {"no_session", "WTSConnected"} =>
                   /\ user_info[t] = UserNone
                   /\ h_token[t] = "null"
                   /\ identity[t] = identity_before[t]
            /\ session[t] \in {"query_failed", "null_buffer", "undersized"} =>
                   user_info[t].kind = "err"
            /\ user_info[t].kind = "none" =>
                   session[t] \in {"no_session", "WTSConnected"}

\* C11 witness: with a session that is connected but has no logged-on user,
\* get_user_info has returned Ok(None)
C11_Witness ==
    /\ Returned("t1")
    /\ session["t1"] = "WTSConnected"
    /\ user_info["t1"] = UserNone

\* The parts of a SID that follow the cloud-identity prefix "S-1-12-1-" (the
\* whole SID when it does not start with the prefix), split on '-'
AfterPrefix(sid) ==
    split_dash(IF starts_with(sid, CloudPrefix) THEN Drop(sid, Len(CloudPrefix))
               ELSE sid, <<>>)

IsNumber(part) ==
    part # <<>> /\ \A i \in 1..Len(part) : is_digit(part[i])

\* The numeric parts among parts, in order
RECURSIVE Numeric(_)
Numeric(parts) ==
    IF parts = <<>> THEN <<>>
    ELSE (IF IsNumber(parts[1]) THEN <<parts[1]>> ELSE <<>>) \o Numeric(Tail(parts))

\* C12: presence of the cloud object identifier.  In every record returned
\* by get_user_info, azure_ad_object_id is present only when user_type is
\* AzureAD and the SID, after removal of the cloud-identity prefix, splits
\* into at least 4 numeric parts; a SID with fewer than 4 numeric parts after
\* the prefix yields a record without identifier, not an error; a
\* DomainOrLocal user never has one.
C12_ObjectIdPresence ==
    \A t \in Threads :
        Returned(t) =>
            /\ (h_token[t] = "closed" /\ name_result[t]) => user_info[t].kind = "some"
            /\ user_info[t].kind = "some" =>
                   LET info == user_info[t].info
                       parts == Numeric(AfterPrefix(info.sid))
                   IN /\ info.sid = user_sid[t]
                      /\ info.azure_ad_object_id.some =>
                             (info.user_type = "AzureAD" /\ Len(parts) >= 4)
                      /\ (starts_with(info.sid, CloudPrefix) /\ Len(parts) < 4) =>
                             info.azure_ad_object_id = None
                      /\ info.user_type = "DomainOrLocal" =>
                             info.azure_ad_object_id = None

\* C12 witness: the record of a cloud user whose SID has three
\* sub-authorities after the prefix has no identifier
C12_Witness ==
    /\ Returned("t1")
    /\ user_info["t1"].kind = "some"
    /\ user_info["t1"].info.sid = SidCloudShort
    /\ user_info["t1"].info.user_type = "AzureAD"
    /\ user_info["t1"].info.azure_ad_object_id = None

\* The sub-authorities that follow the cloud-identity prefix at the start of
\* the SID; none when the SID does not start with the prefix
FollowPrefix(sid) ==
    IF starts_with(sid, CloudPrefix)
    THEN Numeric(split_dash(Drop(sid, Len(CloudPrefix)), <<>>))
    ELSE <<>>

\* The 4-byte little-endian encodings of the first four of parts, concatenated
LittleEndian16(parts) ==
    to_le_bytes(parse_u32(parts[1]).val) \o to_le_bytes(parse_u32(parts[2]).val)
    \o to_le_bytes(parse_u32(parts[3]).val) \o to_le_bytes(parse_u32(parts[4]).val)

\* C13: cloud SID decoding.  For every SID that get_user_info classifies as
\* AzureAD, the identifier of the record is made of the 4-byte little-endian
\* encodings of the first 4 sub-authorities that follow the cloud-identity
\* prefix at the start of the SID (S-1-12-1-1-2-3-4 gives the bytes of 1, 2,
\* 3, 4), and the same SID always gives the same identifier.
C13_CloudSidDecoding ==
    /\ \A t \in Threads :
        (Returned(t) /\ user_info[t].kind = "some"
                     /\ user_info[t].info.user_type = "AzureAD") =>
            LET info == user_info[t].info
                follow == FollowPrefix(info.sid)
            IN /\ info.azure_ad_object_id =
                      IF Len(follow) >= 4 THEN Some(LittleEndian16(follow)) ELSE None
               /\ info.sid = SidCloud =>
                      info.azure_ad_object_id =
                          Some(<<1, 0, 0, 0, 2, 0, 0, 0, 3, 0, 0, 0, 4, 0, 0, 0>>)
               /\ info.sid = SidCloudBig =>
                      info.azure_ad_object_id =
                          Some(<<2, 1, 0, 0, 1, 0, 1, 0, 255, 255, 255, 255, 0, 0, 0, 0>>)
    /\ \A t, u \in Threads :
        (user_info[t].kind = "some" /\ user_info[u].kind = "some"
         /\ user_info[t].info.sid = user_info[u].info.sid) =>
            user_info[t].info.azure_ad_object_id = user_info[u].info.azure_ad_object_id

\* service_loop has returned
LoopReturned == svc_pc \in {"loop_returned", "run_returned"}

\* The shutdown signal was sent and the polling loop has received it
ShutdownObserved ==
    /\ stop_sent
    /\ shutdown_rx = 0
    /\ \E i \in 1..Len(svc_log) : svc_log[i] = ShutdownReceived

\* C14: registration failure is survivable.  When register_event_watcher
\* fails the error is returned to service_loop, which logs it and still
\* enters the polling loop; the service keeps running without the
\* subscription and stops only once the shutdown signal has been observed.
C14_RegistrationFailureSurvivable ==
    /\ [](watcher = "err" =>
             /\ ~crashed
             /\ ~subscribed
             /\ delivered = 0
             /\ svc_pc # "log_watcher" =>
                    (Len(svc_log) >= 1 /\ svc_log[1] = WatcherFailed)
             /\ ~ShutdownObserved =>
                    (svc_pc \in {"log_watcher", "polling"}
                     /\ service_state = "Running"))
    /\ [][(watcher' = "err" /\ svc_pc = "log_watcher" /\ svc_pc' # svc_pc)
              => svc_pc' = "polling"]_vars

\* C14 witness: the registration has failed, the failure is logged and the
\* service polls for a shutdown signal that has not been sent
C14_Witness ==
    /\ watcher = "err"
    /\ svc_pc = "polling"
    /\ svc_log = <<WatcherFailed>>
    /\ ~stop_sent
    /\ service_state = "Running"

\* What a delivery in progress on a dispatch thread holds
DispatchState == <<pc, guard, last_call, notif, event, now, cb_calls, emitted>>

\* C15: cooperative shutdown.  service_loop does not return before a
\* shutdown signal has been observed on the channel; once a signal has been
\* sent the polling loop eventually observes it, service_loop returns and
\* run_service goes on to report Stopped; no step of the service thread waits
\* for or changes a delivery in progress on a dispatch thread.
C15_CooperativeShutdown ==
    /\ [](LoopReturned => ShutdownObserved)
    /\ [](service_state = "Stopped" => (ShutdownObserved /\ svc_pc = "run_returned"))
    /\ [][svc_pc' # svc_pc => UNCHANGED DispatchState]_vars
    /\ [][(svc_pc = "polling" /\ shutdown_rx > 0 /\ svc_pc' # svc_pc)
              => svc_pc' = "loop_returned"]_vars
    /\ (stop_sent ~> LoopReturned)
    /\ (stop_sent ~> svc_pc = "run_returned")

\* C15 witness: service_loop has returned and Stopped is reported while a
\* callback accepted by the debounce gate is executing on the dispatch thread
C15_Witness ==
    /\ svc_pc = "run_returned"
    /\ service_state = "Stopped"
    /\ pc["t1"] = "callback"
    /\ guard = "t1"

\* C16: the debounce last_invocation timestamp is monotonically
\* non-decreasing.  For every window value and every interleaving of
\* concurrent deliveries, no write to last_call stores a value smaller than
\* the value it replaces.
C16_LastCallMonotonic ==
    [][(last_call.some /\ last_call'.some) => last_call'.val >= last_call.val]_vars

\* The positions of a collection pass that follow get_entra_join_info
AfterDeviceInfo == (CollectionPass \ {"collect_logs"}) \cup {"cb_done"}

IsUserRecord(r) ==
    r.action = "current_user_info" /\ r.level = "info" /\ "user_sid" \in DOMAIN r

\* C17: a failure inside one collection pass never crashes or stops the
\* service.  The process is never aborted by a pass; when device identity
\* collection returns an error it is logged, no device identity record is
\* emitted and user identity resolution is still attempted; when user
\* identity resolution returns an error or None it is logged and no user
\* identity record is emitted; the handler then returns to the dispatch
\* thread.
C17_PassFailureSurvivable ==
    /\ ~crashed
    /\ \A t \in Threads :
        /\ pc[t] # "aborted"
        /\ (pc[t] \in AfterDeviceInfo /\ device_info[t].kind = "err") =>
               /\ device_info[t].results = <<>>
               /\ \E i \in 1..Len(emitted[t]) :
                      emitted[t][i] = [action |-> "tenant_info", level |-> "error"]
               /\ \A i \in 1..Len(emitted[t]) : ~IsDeviceRecord(emitted[t][i])
        /\ (pc[t] = "cb_done" /\ user_info[t].kind \in {"err", "none"}) =>
               /\ emitted[t][Len(emitted[t])].action = "current_user_info"
               /\ emitted[t][Len(emitted[t])].level =
                      IF user_info[t].kind = "err" THEN "error" ELSE "info"
               /\ \A i \in 1..Len(emitted[t]) : ~IsUserRecord(emitted[t][i])

\* The value of the field of ev named name, if ev has event data with it
FieldOf(ev, name) ==
    LET data == ev.event_data.val
        at == {i \in 1..Len(data) : data[i].name = name}
    IN IF at = {} THEN None
       ELSE Some(data[CHOOSE i \in at : \A k \in at : i <= k].value)

\* The category name of an event id
CategoryName(id) ==
    IF id = 4624 THEN "Logon"
    ELSE IF id = 4634 THEN "Logoff"
    ELSE IF id = 4647 THEN "LogoffInteractive"
    ELSE "Unknown"

LogonRecords(t) == {i \in 1..Len(emitted[t]) : IsLogonRecord(emitted[t][i])}

\* C18: logon/logoff record content.  For every event that passes the
\* debounce gate and the whitelist exactly one logon/logoff record is
\* emitted, with event_type the category name of the event id and user_sid,
\* username and logon_type the values of the event's TargetUserSid,
\* TargetUserName and LogonType fields; event 4624 with TargetUserSid
\* S-1-5-21-..., LogonType 10 and TargetUserName alice gives event_type Logon,
\* that SID, alice and 10.
C18_LogonRecordContent ==
    \A t \in Threads :
        (cb_calls[t] # <<>> /\ HasCollectableSid(cb_calls[t][1])) =>
            LET ev == cb_calls[t][1]
            IN /\ Cardinality(LogonRecords(t)) = 1
               /\ \A i \in LogonRecords(t) :
                      /\ i = 1
                      /\ emitted[t][i].event_type = CategoryName(ev.system.event_id)
                      /\ Some(emitted[t][i].user_sid) = FieldOf(ev, "TargetUserSid")
                      /\ emitted[t][i].username = FieldOf(ev, "TargetUserName")
                      /\ emitted[t][i].logon_type = FieldOf(ev, "LogonType")
                      /\ ev = EvLogonAlice =>
                             emitted[t][i] =
                                 [action |-> "logon_logoff_event", level |-> "info",
                                  event_type |-> "Logon", user_sid |-> SidAlice,
                                  username |-> Some(NameAlice),
                                  logon_type |-> Some(LogonType10)]

\* C18 witness: the logon of alice has passed the debounce gate and the
\* whitelist, and its record is emitted
C18_Witness ==
    /\ debounce.some
    /\ guard = "t1"
    /\ pc["t1"] = "collect_logs"
    /\ cb_calls["t1"] = <<EvLogonAlice>>
    /\ Len(emitted["t1"]) = 1
    /\ emitted["t1"][1].event_type = "Logon"
    /\ emitted["t1"][1].username = Some(NameAlice)

\* C19: event classification.  get_event_id_type gives Logon for event id
\* 4624, Logoff for 4634, LogoffInteractive for 4647 and Unknown for every
\* other id, as seen in the event_type of the record the callback emits.
C19_EventClassification ==
    \A t \in Threads :
        \A i \in LogonRecords(t) :
            LET id == notif[t].xml.event_id
                type == emitted[t][i].event_type
            IN /\ id = 4624 => type = "Logon"
               /\ id = 4634 => type = "Logoff"
               /\ id = 4647 => type = "LogoffInteractive"
               /\ id \notin {4624, 4634, 4647} => type = "Unknown"

\* C19 witness: the record of an event of id 4647 is emitted
C19_Witness ==
    /\ cb_calls["t1"] = <<EvLogoffInteractiveAlice>>
    /\ LogonRecords("t1") = {1}
    /\ emitted["t1"][1].event_type = "LogoffInteractive"

\* The callback of the delivery on thread t has been called or is about to be
InCallback(t) == pc[t] = "callback" \/ cb_calls[t] # <<>>

\* C20: pipeline order, debounce before whitelist.  Under a window the
\* callback, and with it the whitelist check, runs only for a delivery the
\* gate accepted, and an accepted delivery has set last_call to its now
\* whether or not its SID is whitelisted or its event data is present; a
\* delivery that arrives less than one window after the accepted one is
\* suppressed: no callback, no record and no collection pass.
C20_DebounceBeforeWhitelist ==
    /\ [](\A t \in Threads :
             /\ (debounce.some /\ InCallback(t) /\ pc[t] # "hwe_return") =>
                    (guard = t /\ last_call = Some(now[t])
                     /\ last_accepted # "none")
             /\ (pc[t] \in CollectionPass \/ LogonRecords(t) # {}) =>
                    cb_calls[t] # <<>>)
    /\ [][\A t \in Threads :
             (/\ Leaves(t, "hwe_decide")
              /\ last_call.some
              /\ now[t] >= last_call.val
              /\ now[t] - last_call.val < debounce.val) =>
                 /\ pc'[t] = "cb_done"
                 /\ cb_calls'[t] = <<>>
                 /\ emitted'[t] = <<>>
                 /\ last_call' = last_call]_vars
    /\ [][\A t \in Threads :
             (Leaves(t, "cb_done") /\ cb_calls[t] = <<>>) =>
                 (pc'[t] = "hwe_return" /\ emitted'[t] = <<>>)]_vars

\* C20 witness: the logon of alice, arriving half a window after an accepted
\* notification that the whitelist ignored, has been suppressed
C20_Witness ==
    /\ debounce = Some(Window)
    /\ last_accepted = "ignored"
    /\ pc["t1"] = "hwe_return"
    /\ event["t1"] = EvLogonAlice
    /\ last_call.some
    /\ now["t1"] = last_call.val + (Window \div 2)
    /\ cb_calls["t1"] = <<>>
    /\ emitted["t1"] = <<>>

\* The subject attributes of the certificate a blob holds: the first
\* domain-component and the first common-name value, "" for one it lacks or
\* when the blob holds no certificate
SubjectOf(blob) ==
    CASE blob = CertDer(1, 3) -> [dc |-> "tenantA", cn |-> "deviceX"]
      [] blob = CertDer(1, 4) -> [dc |-> "tenantA", cn |-> "deviceY"]
      [] blob = CertDer(2, 3) -> [dc |-> "tenantB", cn |-> "deviceX"]
      [] blob = CertDer(0, 3) -> [dc |-> "", cn |-> "deviceX"]
      [] blob = CertDer(1, 0) -> [dc |-> "tenantA", cn |-> ""]
      [] OTHER -> [dc |-> "", cn |-> ""]

\* The scanned certificates that have both attributes and whose
\* domain-component is tenant
Matching(reg, tenant) ==
    {i \in 1..Len(reg.certs) :
        /\ SubjectOf(reg.certs[i].blob).dc = tenant
        /\ SubjectOf(reg.certs[i].blob).cn # ""}

\* C21: device/tenant join of get_entra_join_info.  The device_id of a
\* returned record is non-empty only if some scanned certificate has both a
\* domain-component and a common-name and its domain-component equals the
\* record's tenant_id; device_id is then the common-name of the last such
\* certificate in enumeration order; a certificate lacking either attribute
\* contributes no device_id.
C21_DeviceTenantJoin ==
    device_info["t1"].kind = "ok" =>
        \A j \in 1..Len(device_info["t1"].results) :
            LET r == device_info["t1"].results[j]
                found == Matching(registry, r.tenant_id)
                last == CHOOSE i \in found : \A k \in found : k <= i
            IN /\ r.tenant_id # ""
               /\ r.device_id # "" => found # {}
               /\ found # {} =>
                      r.device_id = SubjectOf(registry.certs[last].blob).cn
               /\ found = {} => r.device_id = ""

\* C21 witness: two certificates share the domain-component of the first
\* tenant, whose record has the common-name of the second; the other tenant
\* has no certificate
C21_Witness ==
    /\ device_info["t1"].kind = "ok"
    /\ Len(registry.certs) = 2
    /\ registry.certs[1].blob = CertDer(1, 3)
    /\ registry.certs[2].blob = CertDer(1, 4)
    /\ Len(device_info["t1"].results) = 2
    /\ device_info["t1"].results[1].tenant_id = "tenantA"
    /\ device_info["t1"].results[1].device_id = "deviceY"
    /\ device_info["t1"].results[2].tenant_id = "tenantB"
    /\ device_info["t1"].results[2].device_id = ""

\* A notification can be delivered, or is being delivered
Deliverable == subscribed \/ \E t \in Threads : pc[t] # "idle"

\* C22: subscription context lifetime.  In every state in which a
\* notification can be delivered (after register_event_watcher has returned,
\* while the shutdown loop polls, after service_loop has returned) the
\* EventSubscriptionContext created at registration is still allocated; it is
\* never freed, also when registration fails, and the subscription is never
\* unregistered.
C22_ContextOutlivesSubscription ==
    /\ [](Deliverable => ctx = "allocated")
    /\ [](watcher # "none" => ctx = "allocated")
    /\ [][ctx = "allocated" => ctx' = "allocated"]_vars
    /\ [][subscribed => subscribed']_vars

\* C22 witness: service_loop has returned and run_service has reported
\* Stopped, and a notification is being delivered through the context
C22_Witness ==
    /\ svc_pc = "run_returned"
    /\ subscribed
    /\ ctx = "allocated"
    /\ pc["t1"] = "hwe_decide"
    /\ delivered = MaxServiceDeliveries

\* The callback of the delivery on thread t is in progress
CallbackInProgress(t) == pc[t] = "callback" \/ pc[t] \in CollectionPass

\* C23: with a debounce window the callback runs inside the dispatch call
\* while the debounce guard is held, so across all dispatch threads at most
\* one callback invocation, at most one collection pass and at most one token
\* impersonation is in progress at any time; a concurrent delivery blocks
\* until the running callback has returned and then decides with the now it
\* sampled before blocking.
C23_SerializedCallbacks ==
    /\ [](debounce.some =>
             /\ \A t \in Threads : CallbackInProgress(t) => guard = t
             /\ Cardinality({t \in Threads : CallbackInProgress(t)}) <= 1
             /\ Cardinality({t \in Threads : pc[t] \in CollectionPass}) <= 1
             /\ Cardinality({t \in Threads : identity[t] = "user"}) <= 1)
    /\ [][\A t \in Threads :
             /\ (pc[t] = "hwe_lock" /\ \E u \in Threads : CallbackInProgress(u)) =>
                    (pc'[t] = "hwe_lock" /\ now'[t] = now[t])
             /\ pc[t] \in {"hwe_lock", "hwe_decide"} => now'[t] = now[t]
             /\ Leaves(t, "hwe_decide") =>
                    ((pc'[t] = "hwe_write")
                        <=> (~last_call.some
                             \/ duration_since(now[t], last_call.val) >= debounce.val))]_vars

\* C24: with no debounce window, two notifications delivered concurrently on
\* different dispatch threads never execute the subscription's user callback
\* (a mutable closure reached through the shared context) at the same time.
C24_CallbackExclusiveWithoutWindow ==
    ~debounce.some =>
        Cardinality({t \in Threads : CallbackInProgress(t)}) <= 1

============================================================================
